---------------------------- MODULE Spec2Model ----------------------------
(***************************************************************************)
(* A model of hyperfine's driver, src/src/main.rs: main, which builds the  *)
(* options (build_hyperfine_options), the commands (build_commands) and    *)
(* the export manager (build_export_manager) from the command line and     *)
(* then benchmarks the commands one after the other (run), exporting the   *)
(* accumulated results after every benchmark and printing the relative     *)
(* speed comparison at the end (write_benchmark_comparison).               *)
(*                                                                         *)
(* Option<T> is a sequence of length at most one, Result<T, E> a record    *)
(* with the field ok.  Strings the program only passes along are           *)
(* identifiers: <<"cmd", k>> is the k-th command string, <<"name", k>> the *)
(* k-th --command-name template, a parameter name is a number (find_dupes  *)
(* sorts them) and the k-th token of a value list is the number k.         *)
(***************************************************************************)
EXTENDS Integers, Sequences, FiniteSets, TLC

(***************************************************************************)
(* Bounds of the model.                                                    *)
(***************************************************************************)
\* the largest number given to --warmup, --min-runs, --max-runs and --runs
MaxRunsArg == 3
\* the largest default of runs.min (the default is at least 1)
MaxDefaultMinRuns == 2
\* the largest number of command strings
MaxCommands == 2
\* the largest number of --parameter-list declarations
MaxParams == 2
\* the largest number of tokens of one parameter value list
MaxValues == 2
\* the largest number of --command-name occurrences
MaxNames == 4
\* the largest number of abnormal outcomes of the environment in one run:
\* failed calls and measurements with a mean <= 0
MaxAnomalies == 2

(***************************************************************************)
(* Option and Result.                                                      *)
(***************************************************************************)
None == << >>
Some(x) == << x >>
Ok(v) == [ok |-> TRUE, val |-> v]
Err(e) == [ok |-> FALSE, err |-> e]

Min(a, b) == IF a <= b THEN a ELSE b

(***************************************************************************)
(* The command line (clap's ArgMatches).  The value of a numeric option is *)
(* a string: digits with their value, or something parse::<u64> rejects.   *)
(***************************************************************************)
NumStr == [digits : {TRUE}, value : 0..MaxRunsArg] \cup {[digits |-> FALSE, value |-> 0]}
NumArg == {None} \cup {Some(s) : s \in NumStr}
StyleArg == {None} \cup {Some(s) : s \in {"full", "basic", "nocolor", "color", "none"}}
ShellArg == {None} \cup {Some(s) : s \in {"sh", "none", "unparsable"}}
ExportFlags == <<"export-asciidoc", "export-json", "export-csv", "export-markdown">>

VARIABLES
    matches,         \* the command line
    env,             \* what the environment fixes: default runs.min, stdout a tty
    anomalies,       \* abnormal outcomes the environment may still produce
    pc,              \* where main is
    options,         \* main's options: None, or build_hyperfine_options' result
    colored,         \* colored::control's override: None or Some(bool)
    commands,        \* the commands built so far
    i,               \* build_commands' counter of built commands
    index,           \* build_commands' index into the parameter space
    export_manager,  \* the registered exporters
    calibrations,    \* calls of mean_shell_spawning_time
    benchmarks,      \* the command numbers run_benchmark was called with
    timing_results,  \* run's accumulated results
    exported,        \* the arguments of the calls of write_results
    stdout,          \* what was printed to stdout
    stderr,          \* what was printed to stderr
    exit_code        \* None while running, Some(code) once the process ended

vars == <<matches, env, anomalies, pc, options, colored, commands, i, index,
          export_manager, calibrations, benchmarks, timing_results, exported,
          stdout, stderr, exit_code>>

(***************************************************************************)
(* build_hyperfine_options                                                 *)
(***************************************************************************)
\* HyperfineOptions::default(): the run count has a minimum of at least 1 and
\* no maximum
DefaultOptions(e) ==
    [warmup_count |-> 0,
     runs |-> [min |-> e.default_min_runs, max |-> None],
     preparation_command |-> None,
     show_output |-> FALSE,
     output_style |-> "Full",
     shell |-> "Default"]

\* the closure param_to_u64: Ok(None) for an absent option, Ok(Some(n)) for a
\* number, the parse error otherwise
param_to_u64(m, param) ==
    IF m[param] = None THEN Ok(None)
    ELSE IF m[param][1].digits THEN Ok(Some(m[param][1].value))
    ELSE Err(<<"NumericParsingError", param>>)

\* --runs sets both bounds
override_runs(min_runs, max_runs, runs) ==
    IF runs # None THEN [min |-> runs, max |-> runs]
    ELSE [min |-> min_runs, max |-> max_runs]

\* faulty variant: an empty range is not rejected
match_runs_unchecked(min_runs, max_runs, runs) ==
    IF min_runs # None /\ max_runs = None THEN
        Ok([runs EXCEPT !.min = min_runs[1]])
    ELSE IF min_runs = None /\ max_runs # None THEN
        Ok([min |-> Min(runs.min, max_runs[1]), max |-> Some(max_runs[1])])
    ELSE IF min_runs # None /\ max_runs # None THEN
        Ok([min |-> min_runs[1], max |-> Some(max_runs[1])])
    ELSE Ok(runs)

\* faulty variant: a lone maximum leaves the default minimum as it is
match_runs_keep_min(min_runs, max_runs, runs) ==
    IF min_runs # None /\ max_runs = None THEN
        Ok([runs EXCEPT !.min = min_runs[1]])
    ELSE IF min_runs = None /\ max_runs # None THEN
        Ok([min |-> runs.min, max |-> Some(max_runs[1])])
    ELSE IF min_runs # None /\ max_runs # None /\ min_runs[1] > max_runs[1] THEN
        Err(<<"EmptyRunsRange">>)
    ELSE IF min_runs # None /\ max_runs # None THEN
        Ok([min |-> min_runs[1], max |-> Some(max_runs[1])])
    ELSE Ok(runs)

\* the match on (min_runs, max_runs): the run-count bounds of the options,
\* or the error EmptyRunsRange
match_runs(min_runs, max_runs, runs) ==
    IF min_runs # None /\ max_runs = None THEN
        Ok([runs EXCEPT !.min = min_runs[1]])
    ELSE IF min_runs = None /\ max_runs # None THEN
        \* the minimum was not explicit: lowered if max is below the default
        Ok([min |-> Min(runs.min, max_runs[1]), max |-> Some(max_runs[1])])
    ELSE IF min_runs # None /\ max_runs # None /\ min_runs[1] > max_runs[1] THEN
        Err(<<"EmptyRunsRange">>)
    ELSE IF min_runs # None /\ max_runs # None THEN
        Ok([min |-> min_runs[1], max |-> Some(max_runs[1])])
    ELSE Ok(runs)

\* options.output_style
output_style(style, show_output, tty) ==
    IF style = Some("full") THEN "Full"
    ELSE IF style = Some("basic") THEN "Basic"
    ELSE IF style = Some("nocolor") THEN "NoColor"
    ELSE IF style = Some("color") THEN "Color"
    ELSE IF style = Some("none") THEN "Disabled"
    ELSE IF ~show_output /\ tty THEN "Full"
    ELSE "Basic"

\* what colored::control::set_override is called with, if it is called
color_override(style) ==
    IF style \in {"Basic", "NoColor"} THEN Some(FALSE)
    ELSE IF style \in {"Full", "Color"} THEN Some(TRUE)
    ELSE None

\* Shell::parse: "none" disables the shell, the argv of a shell is tokenized
Shell_parse(shell) ==
    IF shell = "none" THEN Ok("None")
    ELSE IF shell = "unparsable" THEN Err(<<"ShellParseError">>)
    ELSE Ok("Default")

\* the options up to and including the run-count bounds (each ? returns the
\* error)
parse_runs(m, e) ==
    LET warmup == param_to_u64(m, "warmup")
        min_runs == param_to_u64(m, "min_runs")
        max_runs == param_to_u64(m, "max_runs")
        runs == param_to_u64(m, "runs")
    IN  IF ~warmup.ok THEN warmup
        ELSE IF ~min_runs.ok THEN min_runs
        ELSE IF ~max_runs.ok THEN max_runs
        ELSE IF ~runs.ok THEN runs
        ELSE LET o == override_runs(min_runs.val, max_runs.val, runs.val)
                 r == match_runs(o.min, o.max, DefaultOptions(e).runs)
             IN  IF ~r.ok THEN r
                 ELSE Ok([DefaultOptions(e) EXCEPT
                            !.warmup_count =
                                IF warmup.val = None THEN @ ELSE warmup.val[1],
                            !.runs = r.val])

build_hyperfine_options(m, e) ==
    LET p == parse_runs(m, e)
    IN  IF ~p.ok THEN p
        ELSE LET style == output_style(m.style, m.show_output, e.tty)
                 o == [p.val EXCEPT !.preparation_command = m.prepare,
                                    !.show_output = m.show_output,
                                    !.output_style = style]
             IN  IF m.shell = None THEN Ok(o)
                 ELSE LET s == Shell_parse(m.shell[1])
                      IN  IF ~s.ok THEN s ELSE Ok([o EXCEPT !.shell = s.val])

\* whether build_hyperfine_options got as far as setting the colour override
colored_after(m, e) ==
    IF parse_runs(m, e).ok
    THEN color_override(output_style(m.style, m.show_output, e.tty))
    ELSE None

(***************************************************************************)
(* build_commands                                                          *)
(***************************************************************************)
\* tokenize: the tokens of a comma-separated list; the list is kept as the
\* sequence of its tokens
tokenize(list_str) == [k \in 1..Len(list_str) |-> list_str[k]]

\* the (name, values) pairs of the --parameter-list declarations, in
\* declaration order
param_names_and_values(m) ==
    [j \in 1..Len(m.parameter_list) |->
        <<m.parameter_list[j][1], tokenize(m.parameter_list[j][2])>>]

\* find_dupes: the names that appear more than once, in sorted order
RECURSIVE sorted(_)
sorted(S) ==
    IF S = {} THEN << >>
    ELSE LET least == CHOOSE x \in S : \A y \in S : x <= y
         IN  <<least>> \o sorted(S \ {least})

find_dupes(names) ==
    sorted({names[j] : j \in {j \in 1..Len(names) :
                \E k \in 1..Len(names) : k # j /\ names[k] = names[j]}})

\* the dimensions of the parameter space: the commands, then each parameter
dimensions(m) ==
    <<Len(m.command)>> \o
        [j \in 1..Len(m.parameter_list) |-> Len(param_names_and_values(m)[j][2])]

RECURSIVE product(_)
product(dims) == IF dims = << >> THEN 1 ELSE Head(dims) * product(Tail(dims))

param_space_size(m) == product(dimensions(m))

\* faulty variant: every command gets the first name
command_name_first(command_names, n) ==
    IF 0 < Len(command_names) THEN Some(command_names[1]) ELSE None

\* command_names.get(i).or_else(|| command_names.get(0)), i counted from 0
command_name_at(command_names, n) ==
    IF n < Len(command_names) THEN Some(command_names[n + 1])
    ELSE IF 0 < Len(command_names) THEN Some(command_names[1])
    ELSE None

\* Command::new_parametrized and Command::new
new_parametrized(name, expression, parameters) ==
    [name |-> name, expression |-> expression, parameters |-> parameters]

new(name, expression) == new_parametrized(name, expression, << >>)

\* the parameters of the command at an index: the parameters zipped with the
\* index without its first entry
parameters_at(m, idx) ==
    [j \in 1..Len(m.parameter_list) |->
        <<param_names_and_values(m)[j][1],
          <<"Text", param_names_and_values(m)[j][2][idx[j + 1] + 1]>>>>]

\* "Increment index, exiting loop on overflow": the first entry below its
\* dimension is incremented, the entries before it wrap to 0
RECURSIVE increment_from(_, _, _)
increment_from(idx, dims, k) ==
    IF k > Len(idx) THEN [index |-> idx, overflow |-> TRUE]
    ELSE IF idx[k] + 1 < dims[k]
         THEN [index |-> [idx EXCEPT ![k] = @ + 1], overflow |-> FALSE]
         ELSE increment_from([idx EXCEPT ![k] = 0], dims, k + 1)

RECURSIVE increment_down_from(_, _, _)
increment_down_from(idx, dims, k) ==
    IF k < 1 THEN [index |-> idx, overflow |-> TRUE]
    ELSE IF idx[k] + 1 < dims[k]
         THEN [index |-> [idx EXCEPT ![k] = @ + 1], overflow |-> FALSE]
         ELSE increment_down_from([idx EXCEPT ![k] = 0], dims, k - 1)

\* faulty variant: the last entry is incremented first
increment_index_rightmost(idx, dims) == increment_down_from(idx, dims, Len(idx))

\* faulty variant: the loop is left as soon as the command index wraps
increment_index_commands_only(idx, dims) ==
    IF idx[1] + 1 < dims[1]
    THEN [index |-> [idx EXCEPT ![1] = @ + 1], overflow |-> FALSE]
    ELSE [index |-> [idx EXCEPT ![1] = 0], overflow |-> TRUE]

increment_index(idx, dims) == increment_from(idx, dims, 1)

\* the commands of the branch without parameters: the i-th name, if there is
\* one, goes to the i-th command string
plain_commands(m) ==
    [k \in 1..Len(m.command) |->
        new(IF k <= Len(m.command_name) THEN Some(m.command_name[k]) ELSE None,
            m.command[k])]

(***************************************************************************)
(* run and write_benchmark_comparison                                      *)
(***************************************************************************)
\* faulty variant: a single --prepare command is not accepted for all
prepare_count_mismatch_strict(preparation_command, n) ==
    /\ preparation_command # None
    /\ n # Len(preparation_command[1])

\* the check of the number of --prepare commands: more than one, and not one
\* per command
prepare_count_mismatch(preparation_command, n) ==
    /\ preparation_command # None
    /\ Len(preparation_command[1]) > 1
    /\ n # Len(preparation_command[1])

\* relative_speed::compute: uncomputable (None) if the mean of some result is
\* not positive, else every result with its speed relative to the fastest
\* (kept as the fraction mean / fastest mean)
compute(results) ==
    IF \E k \in 1..Len(results) : results[k].mean <= 0 THEN None
    ELSE LET fastest == CHOOSE x \in {results[k].mean : k \in 1..Len(results)} :
                            \A k \in 1..Len(results) : x <= results[k].mean
         IN  Some([k \in 1..Len(results) |->
                    [result |-> results[k],
                     relative_speed |-> <<results[k].mean, fastest>>]])

\* sort_by(compare_mean_time): a stable sort by the mean
RECURSIVE sort_by_mean(_)
sort_by_mean(annotated) ==
    IF annotated = << >> THEN << >>
    ELSE LET first == CHOOSE k \in 1..Len(annotated) :
                        /\ \A l \in 1..Len(annotated) :
                              annotated[k].result.mean <= annotated[l].result.mean
                        /\ \A l \in 1..(k - 1) :
                              annotated[l].result.mean # annotated[k].result.mean
             rest == [l \in 1..(Len(annotated) - 1) |->
                        IF l < first THEN annotated[l] ELSE annotated[l + 1]]
         IN  <<annotated[first]>> \o sort_by_mean(rest)

\* faulty variant: the summary is printed whether or not it is computable
write_benchmark_comparison_always(results) ==
    IF Len(results) < 2 THEN [stdout |-> << >>, stderr |-> << >>]
    ELSE [stdout |-> <<<<"Summary", results[1].command, Tail(results)>>>>,
          stderr |-> << >>]

\* what write_benchmark_comparison prints
write_benchmark_comparison(results) ==
    IF Len(results) < 2 THEN [stdout |-> << >>, stderr |-> << >>]
    ELSE IF compute(results) # None THEN
        LET annotated_results == sort_by_mean(compute(results)[1])
        IN  [stdout |-> <<<<"Summary", annotated_results[1].result.command,
                            Tail(annotated_results)>>>>,
             stderr |-> << >>]
    ELSE [stdout |-> << >>,
          stderr |-> <<<<"Note", <<"comparison could not be computed">>>>>>]

(***************************************************************************)
(* The initial states: a command line and an environment.  The command     *)
(* lines come in four families, each varying the options one part of main  *)
(* reads and leaving the others at Plain.  --parameter-scan, whose         *)
(* expansion (get_parameterized_commands) main.rs only calls, is never     *)
(* given; --setup, --cleanup, --ignore-failure and --time-unit are copied  *)
(* into the options, read by run_benchmark and the exporters only, and are *)
(* left out.  The environment decides the outcome of the calls main.rs     *)
(* makes into the other modules (mean_shell_spawning_time, run_benchmark,  *)
(* add_exporter, write_results): each may fail, and a benchmark may        *)
(* measure a mean <= 0, as long as anomalies allows.                       *)
(***************************************************************************)
command_strings(c) == [k \in 1..c |-> <<"cmd", k>>]
command_name_values(n) == [k \in 1..n |-> <<"name", k>>]
prepare_values(l) == IF l = 0 THEN None ELSE Some([k \in 1..l |-> <<"prepare", k>>])
ValueLists == {[k \in 1..d |-> k] : d \in 0..MaxValues}
ParameterLists ==
    UNION {[1..p -> (1..MaxParams) \X ValueLists] : p \in 1..MaxParams}

Plain ==
    [warmup |-> None, min_runs |-> None, max_runs |-> None, runs |-> None,
     style |-> None, show_output |-> FALSE, shell |-> None, prepare |-> None,
     command_name |-> << >>, command |-> command_strings(1),
     parameter_list |-> << >>, exports |-> {}]

RunCountMatches ==
    {[Plain EXCEPT !.warmup = t[1], !.min_runs = t[2], !.max_runs = t[3],
                   !.runs = t[4]] :
        t \in NumArg \X NumArg \X NumArg \X NumArg}

StyleMatches ==
    {[Plain EXCEPT !.style = t[1], !.show_output = t[2], !.shell = t[3]] :
        t \in StyleArg \X BOOLEAN \X ShellArg}

CommandMatches ==
    {[Plain EXCEPT !.command = command_strings(t[1]),
                   !.parameter_list = t[2],
                   !.command_name = command_name_values(t[3])] :
        t \in (1..MaxCommands) \X (ParameterLists \cup {<< >>}) \X (0..MaxNames)}

RunMatches ==
    {[Plain EXCEPT !.command = command_strings(t[1]),
                   !.prepare = prepare_values(t[2]),
                   !.style = t[3],
                   !.exports = t[4]] :
        t \in (1..MaxCommands) \X (0..(MaxCommands + 1))
              \X {None, Some("none")}
              \X {{}, {"export-json"}, {"export-csv", "export-markdown"}}}

Init ==
    /\ \/ /\ matches \in RunCountMatches
          /\ env \in [default_min_runs : 1..MaxDefaultMinRuns, tty : {TRUE}]
          /\ anomalies = 0
       \/ /\ matches \in StyleMatches
          /\ env \in [default_min_runs : {MaxDefaultMinRuns}, tty : BOOLEAN]
          /\ anomalies = 0
       \/ /\ matches \in CommandMatches
          /\ env \in [default_min_runs : {MaxDefaultMinRuns}, tty : {TRUE}]
          /\ anomalies = 0
       \/ /\ matches \in RunMatches
          /\ env \in [default_min_runs : {MaxDefaultMinRuns}, tty : {TRUE}]
          /\ anomalies \in 0..MaxAnomalies
    /\ pc = "build_hyperfine_options"
    /\ options = None
    /\ colored = None
    /\ commands = << >>
    /\ i = 0
    /\ index = << >>
    /\ export_manager = << >>
    /\ calibrations = 0
    /\ benchmarks = << >>
    /\ timing_results = << >>
    /\ exported = << >>
    /\ stdout = << >>
    /\ stderr = << >>
    /\ exit_code = None

(***************************************************************************)
(* The steps of main.                                                      *)
(***************************************************************************)
\* error: the message on stderr, and the process ends with code 1
error(message) ==
    /\ stderr' = Append(stderr, <<"Error:", message>>)
    /\ exit_code' = Some(1)
    /\ pc' = "exit"

\* let options = build_hyperfine_options(&matches)
BuildHyperfineOptions ==
    /\ pc = "build_hyperfine_options"
    /\ options' = Some(build_hyperfine_options(matches, env))
    /\ colored' = colored_after(matches, env)
    /\ pc' = "build_commands"
    /\ UNCHANGED <<matches, env, anomalies, commands, i, index, export_manager,
                   calibrations, benchmarks, timing_results, exported, stdout,
                   stderr, exit_code>>

\* build_commands, --parameter-list: duplicate parameter names
BuildCommandsDuplicateNames ==
    /\ pc = "build_commands"
    /\ matches.parameter_list # << >>
    /\ LET dupes == find_dupes([j \in 1..Len(matches.parameter_list) |->
                                    param_names_and_values(matches)[j][1]])
       IN  /\ dupes # << >>
           /\ error(<<"duplicate parameter names", dupes>>)
    /\ UNCHANGED <<matches, env, anomalies, options, colored, commands, i, index,
                   export_manager, calibrations, benchmarks, timing_results,
                   exported, stdout>>

no_dupes(m) ==
    find_dupes([j \in 1..Len(m.parameter_list) |->
                    param_names_and_values(m)[j][1]]) = << >>

\* build_commands, --parameter-list: an empty parameter space
BuildCommandsEmptySpace ==
    /\ pc = "build_commands"
    /\ matches.parameter_list # << >>
    /\ no_dupes(matches)
    /\ param_space_size(matches) = 0
    /\ commands' = << >>
    /\ pc' = "build_export_manager"
    /\ UNCHANGED <<matches, env, anomalies, options, colored, i, index,
                   export_manager, calibrations, benchmarks, timing_results,
                   exported, stdout, stderr, exit_code>>

\* the number of names is neither one nor the number of benchmarks
unexpected_command_name_count(command_name_count, size) ==
    command_name_count > 1 /\ command_name_count # size

\* build_commands, --parameter-list: a wrong number of --command-name
BuildCommandsNameCount ==
    /\ pc = "build_commands"
    /\ matches.parameter_list # << >>
    /\ no_dupes(matches)
    /\ param_space_size(matches) # 0
    /\ unexpected_command_name_count(Len(matches.command_name),
                                     param_space_size(matches))
    /\ error(<<"UnexpectedCommandNameCount", Len(matches.command_name),
               param_space_size(matches)>>)
    /\ UNCHANGED <<matches, env, anomalies, options, colored, commands, i, index,
                   export_manager, calibrations, benchmarks, timing_results,
                   exported, stdout>>

\* build_commands, --parameter-list: the loop is entered at index 0, ..., 0
BuildCommandsEnterLoop ==
    /\ pc = "build_commands"
    /\ matches.parameter_list # << >>
    /\ no_dupes(matches)
    /\ param_space_size(matches) # 0
    /\ ~unexpected_command_name_count(Len(matches.command_name),
                                      param_space_size(matches))
    /\ i' = 0
    /\ commands' = << >>
    /\ index' = [k \in 1..Len(dimensions(matches)) |-> 0]
    /\ pc' = "build_loop"
    /\ UNCHANGED <<matches, env, anomalies, options, colored, export_manager,
                   calibrations, benchmarks, timing_results, exported, stdout,
                   stderr, exit_code>>

\* build_commands, --parameter-list: one turn of the loop 'outer
BuildCommandsLoop ==
    /\ pc = "build_loop"
    /\ LET name == command_name_at(matches.command_name, i)
           next == increment_index(index, dimensions(matches))
       IN  /\ commands' = Append(commands,
                   new_parametrized(name, matches.command[index[1] + 1],
                                    parameters_at(matches, index)))
           /\ i' = i + 1
           /\ index' = next.index
           /\ pc' = IF next.overflow THEN "build_export_manager" ELSE "build_loop"
    /\ UNCHANGED <<matches, env, anomalies, options, colored, export_manager,
                   calibrations, benchmarks, timing_results, exported, stdout,
                   stderr, exit_code>>

\* build_commands, no parameters: more names than command strings
BuildCommandsTooManyNames ==
    /\ pc = "build_commands"
    /\ matches.parameter_list = << >>
    /\ Len(matches.command_name) > Len(matches.command)
    /\ error(<<"TooManyCommandNames", Len(matches.command)>>)
    /\ UNCHANGED <<matches, env, anomalies, options, colored, commands, i, index,
                   export_manager, calibrations, benchmarks, timing_results,
                   exported, stdout>>

\* build_commands, no parameters: one command per command string
BuildCommandsPlain ==
    /\ pc = "build_commands"
    /\ matches.parameter_list = << >>
    /\ ~(Len(matches.command_name) > Len(matches.command))
    /\ commands' = plain_commands(matches)
    /\ pc' = "build_export_manager"
    /\ UNCHANGED <<matches, env, anomalies, options, colored, i, index,
                   export_manager, calibrations, benchmarks, timing_results,
                   exported, stdout, stderr, exit_code>>

\* build_export_manager: an exporter for each export option given, in the
\* order asciidoc, json, csv, markdown
exporters(m) ==
    LET RECURSIVE add(_)
        add(k) == IF k > Len(ExportFlags) THEN << >>
                  ELSE (IF ExportFlags[k] \in m.exports
                        THEN <<ExportFlags[k]>> ELSE << >>) \o add(k + 1)
    IN  add(1)

BuildExportManager ==
    /\ pc = "build_export_manager"
    /\ export_manager' = exporters(matches)
    /\ pc' = "dispatch"
    /\ UNCHANGED <<matches, env, anomalies, options, colored, commands, i, index,
                   calibrations, benchmarks, timing_results, exported, stdout,
                   stderr, exit_code>>

\* build_export_manager: add_exporter fails
BuildExportManagerError ==
    /\ pc = "build_export_manager"
    /\ matches.exports # {}
    /\ anomalies > 0
    /\ anomalies' = anomalies - 1
    /\ error(<<"io", "add_exporter">>)
    /\ UNCHANGED <<matches, env, options, colored, commands, i, index,
                   export_manager, calibrations, benchmarks, timing_results,
                   exported, stdout>>

\* match options: run is called with valid options only
OptionsError ==
    /\ pc = "dispatch"
    /\ ~options[1].ok
    /\ error(options[1].err)
    /\ UNCHANGED <<matches, env, anomalies, options, colored, commands, i, index,
                   export_manager, calibrations, benchmarks, timing_results,
                   exported, stdout>>

CallRun ==
    /\ pc = "dispatch"
    /\ options[1].ok
    /\ pc' = "mean_shell_spawning_time"
    /\ UNCHANGED <<matches, env, anomalies, options, colored, commands, i, index,
                   export_manager, calibrations, benchmarks, timing_results,
                   exported, stdout, stderr, exit_code>>

\* run: the shell spawning time is measured
ShellSpawningTime ==
    /\ pc = "mean_shell_spawning_time"
    /\ calibrations' = calibrations + 1
    /\ pc' = "check_prepare"
    /\ UNCHANGED <<matches, env, anomalies, options, colored, commands, i, index,
                   export_manager, benchmarks, timing_results, exported, stdout,
                   stderr, exit_code>>

\* run: mean_shell_spawning_time fails, run returns the error and main
\* reports it
ShellSpawningTimeError ==
    /\ pc = "mean_shell_spawning_time"
    /\ anomalies > 0
    /\ anomalies' = anomalies - 1
    /\ calibrations' = calibrations + 1
    /\ error(<<"io", "mean_shell_spawning_time">>)
    /\ UNCHANGED <<matches, env, options, colored, commands, i, index,
                   export_manager, benchmarks, timing_results, exported, stdout>>

\* run: the number of --prepare commands is wrong
PrepareCountError ==
    /\ pc = "check_prepare"
    /\ prepare_count_mismatch(options[1].val.preparation_command, Len(commands))
    /\ error(<<"The '--prepare' option has to be provided just once or N times">>)
    /\ UNCHANGED <<matches, env, anomalies, options, colored, commands, i, index,
                   export_manager, calibrations, benchmarks, timing_results,
                   exported, stdout>>

PrepareCountOk ==
    /\ pc = "check_prepare"
    /\ ~prepare_count_mismatch(options[1].val.preparation_command, Len(commands))
    /\ pc' = "run_benchmark"
    /\ UNCHANGED <<matches, env, anomalies, options, colored, commands, i, index,
                   export_manager, calibrations, benchmarks, timing_results,
                   exported, stdout, stderr, exit_code>>

\* the result of a benchmark
BenchmarkResult(cmd, mean) == [command |-> cmd, mean |-> mean]

\* faulty variant: the result is pushed and the next command is benchmarked
\* without an export
RunBenchmarkNoExport ==
    /\ pc = "run_benchmark"
    /\ Len(timing_results) < Len(commands)
    /\ benchmarks' = Append(benchmarks, Len(timing_results))
    /\ timing_results' = Append(timing_results,
            BenchmarkResult(commands[Len(timing_results) + 1], 1))
    /\ pc' = "run_benchmark"
    /\ UNCHANGED <<matches, env, anomalies, options, colored, commands, i, index,
                   export_manager, calibrations, exported, stdout, stderr,
                   exit_code>>

\* run: the next command is benchmarked and its result pushed
RunBenchmark ==
    /\ pc = "run_benchmark"
    /\ Len(timing_results) < Len(commands)
    /\ benchmarks' = Append(benchmarks, Len(timing_results))
    /\ timing_results' = Append(timing_results,
            BenchmarkResult(commands[Len(timing_results) + 1], 1))
    /\ pc' = "write_results"
    /\ UNCHANGED <<matches, env, anomalies, options, colored, commands, i, index,
                   export_manager, calibrations, exported, stdout, stderr,
                   exit_code>>

\* run: the same, the measured mean being zero or negative
RunBenchmarkZero ==
    /\ pc = "run_benchmark"
    /\ Len(timing_results) < Len(commands)
    /\ anomalies > 0
    /\ anomalies' = anomalies - 1
    /\ \E mean \in {-1, 0} :
          timing_results' = Append(timing_results,
              BenchmarkResult(commands[Len(timing_results) + 1], mean))
    /\ benchmarks' = Append(benchmarks, Len(timing_results))
    /\ pc' = "write_results"
    /\ UNCHANGED <<matches, env, options, colored, commands, i, index,
                   export_manager, calibrations, exported, stdout, stderr,
                   exit_code>>

\* run: run_benchmark fails, run returns the error and main reports it
RunBenchmarkError ==
    /\ pc = "run_benchmark"
    /\ Len(timing_results) < Len(commands)
    /\ anomalies > 0
    /\ anomalies' = anomalies - 1
    /\ benchmarks' = Append(benchmarks, Len(timing_results))
    /\ error(<<"io", "run_benchmark">>)
    /\ UNCHANGED <<matches, env, options, colored, commands, i, index,
                   export_manager, calibrations, timing_results, exported, stdout>>

\* run: the accumulated results are exported
WriteResults ==
    /\ pc = "write_results"
    /\ exported' = Append(exported, timing_results)
    /\ pc' = "run_benchmark"
    /\ UNCHANGED <<matches, env, anomalies, options, colored, commands, i, index,
                   export_manager, calibrations, benchmarks, timing_results,
                   stdout, stderr, exit_code>>

\* faulty variant: the export error is reported and the loop goes on
WriteResultsErrorIgnored ==
    /\ pc = "write_results"
    /\ export_manager # << >>
    /\ anomalies > 0
    /\ anomalies' = anomalies - 1
    /\ exported' = Append(exported, timing_results)
    /\ stderr' = Append(stderr,
            <<"Error:", <<"The following error occurred while exporting">>>>)
    /\ pc' = "run_benchmark"
    /\ UNCHANGED <<matches, env, options, colored, commands, i, index,
                   export_manager, calibrations, benchmarks, timing_results,
                   stdout, exit_code>>

\* run: an exporter fails
WriteResultsError ==
    /\ pc = "write_results"
    /\ export_manager # << >>
    /\ anomalies > 0
    /\ anomalies' = anomalies - 1
    /\ exported' = Append(exported, timing_results)
    /\ error(<<"The following error occurred while exporting">>)
    /\ UNCHANGED <<matches, env, options, colored, commands, i, index,
                   export_manager, calibrations, benchmarks, timing_results,
                   stdout>>

\* run: after the loop the comparison is printed unless the output is
\* disabled; run returns Ok and main ends
RunReturn ==
    /\ pc = "run_benchmark"
    /\ Len(timing_results) = Len(commands)
    /\ LET out == IF options[1].val.output_style # "Disabled"
                  THEN write_benchmark_comparison(timing_results)
                  ELSE [stdout |-> << >>, stderr |-> << >>]
       IN  /\ stdout' = stdout \o out.stdout
           /\ stderr' = stderr \o out.stderr
    /\ exit_code' = Some(0)
    /\ pc' = "exit"
    /\ UNCHANGED <<matches, env, anomalies, options, colored, commands, i, index,
                   export_manager, calibrations, benchmarks, timing_results,
                   exported>>

Next ==
    \/ BuildHyperfineOptions
    \/ BuildCommandsDuplicateNames
    \/ BuildCommandsEmptySpace
    \/ BuildCommandsNameCount
    \/ BuildCommandsEnterLoop
    \/ BuildCommandsLoop
    \/ BuildCommandsTooManyNames
    \/ BuildCommandsPlain
    \/ BuildExportManager
    \/ BuildExportManagerError
    \/ OptionsError
    \/ CallRun
    \/ ShellSpawningTime
    \/ ShellSpawningTimeError
    \/ PrepareCountError
    \/ PrepareCountOk
    \/ RunBenchmark
    \/ RunBenchmarkZero
    \/ RunBenchmarkError
    \/ WriteResults
    \/ WriteResultsError
    \/ RunReturn

Spec == Init /\ [][Next]_vars

(***************************************************************************)
(* Vocabulary of the properties.                                           *)
(***************************************************************************)
\* an error with this first word was reported
Reported(kind) ==
    \E k \in 1..Len(stderr) : stderr[k][1] = "Error:" /\ stderr[k][2][1] = kind

\* the call of this function failed with an I/O error
ReportedIo(what) ==
    \E k \in 1..Len(stderr) : stderr[k][1] = "Error:" /\ stderr[k][2] = <<"io", what>>

ExportErrorReported == Reported("The following error occurred while exporting")
PrepareErrorReported ==
    Reported("The '--prepare' option has to be provided just once or N times")
NameCountErrorReported ==
    Reported("UnexpectedCommandNameCount") \/ Reported("TooManyCommandNames")
SummaryPrinted == \E k \in 1..Len(stdout) : stdout[k][1] = "Summary"
NotePrinted == \E k \in 1..Len(stderr) : stderr[k][1] = "Note"

\* build_commands is over: it returned, or it ended the process
BuildCommandsOver == pc \notin {"build_hyperfine_options", "build_commands", "build_loop"}

\* build_commands returned its commands
BuildCommandsReturned ==
    /\ BuildCommandsOver
    /\ ~Reported("duplicate parameter names")
    /\ ~NameCountErrorReported

ParameterListGiven == matches.parameter_list # << >>
DistinctParameterNames ==
    \A j, k \in 1..Len(matches.parameter_list) :
        j # k => matches.parameter_list[j][1] # matches.parameter_list[k][1]
SomeValueListEmpty ==
    \E j \in 1..Len(matches.parameter_list) : Len(matches.parameter_list[j][2]) = 0

\* the number of combinations: |commands| times the lengths of the value lists
RECURSIVE lengths_product(_)
lengths_product(j) ==
    IF j = 0 THEN Len(matches.command)
    ELSE lengths_product(j - 1) * Len(matches.parameter_list[j][2])

CrossProductSize == lengths_product(Len(matches.parameter_list))

(***************************************************************************)
(* C1: with --parameter-list, C >= 1 commands and no empty value list, the *)
(* commands are built in leftmost-fastest order: the k-th built command    *)
(* (from 0) uses command k mod C and, for the j-th declared parameter of   *)
(* length d_j, the value of index (k div (C * d_1 * ... * d_(j-1))) mod    *)
(* d_j, under the parameter's declared name; when build_commands returns   *)
(* there are as many commands as combinations and no two are equal, so     *)
(* each combination appears exactly once.                                  *)
(***************************************************************************)
C1_LeftmostFastestOrder ==
    (ParameterListGiven /\ ~SomeValueListEmpty) =>
        /\ \A k \in 0..(Len(commands) - 1) :
              /\ commands[k + 1].expression
                    = matches.command[(k % Len(matches.command)) + 1]
              /\ Len(commands[k + 1].parameters) = Len(matches.parameter_list)
              /\ \A j \in 1..Len(matches.parameter_list) :
                    LET d == Len(matches.parameter_list[j][2])
                        v == ((k \div lengths_product(j - 1)) % d) + 1
                    IN  commands[k + 1].parameters[j]
                            = <<matches.parameter_list[j][1],
                                <<"Text", matches.parameter_list[j][2][v]>>>>
        /\ BuildCommandsReturned =>
              /\ Len(commands) = CrossProductSize
              /\ \A k, l \in 1..Len(commands) :
                    k # l => commands[k].expression # commands[l].expression
                             \/ commands[k].parameters # commands[l].parameters

\* two commands, two parameters declared against their sorted order, two
\* values each: the eight commands of the cross product are built
C1_Witness ==
    /\ BuildCommandsReturned
    /\ Len(matches.command) = 2
    /\ Len(matches.parameter_list) = 2
    /\ matches.parameter_list[1][1] > matches.parameter_list[2][1]
    /\ Len(commands) = 8

(***************************************************************************)
(* C2: with --parameter-list the construction loop terminates (it is left  *)
(* before it has built more commands than there are combinations) and the  *)
(* number of built commands is |commands| times the product of the lengths *)
(* of the value lists; if a value list is empty no command is built, and   *)
(* the run that follows benchmarks nothing.                                *)
(***************************************************************************)
C2_CrossProductSize ==
    ParameterListGiven =>
        /\ pc = "build_loop" => i = Len(commands) /\ i < CrossProductSize
        /\ BuildCommandsReturned => Len(commands) = CrossProductSize
        /\ SomeValueListEmpty =>
              /\ commands = << >>
              /\ benchmarks = << >>
              /\ timing_results = << >>
              /\ ~NameCountErrorReported

\* an empty value list beside a non-empty one: the run ended in success having
\* benchmarked nothing
C2_Witness ==
    /\ ParameterListGiven
    /\ SomeValueListEmpty
    /\ \E j \in 1..Len(matches.parameter_list) : Len(matches.parameter_list[j][2]) > 0
    /\ pc = "exit"
    /\ exit_code = Some(0)
    /\ calibrations = 1
    /\ benchmarks = << >>

(***************************************************************************)
(* C3, as claimed: when --command-name is given, build_commands accepts it *)
(* only if there is exactly one name (then the name of every built         *)
(* command) or exactly as many names as built commands (the i-th name for  *)
(* the i-th command), the number of built commands being the size of the   *)
(* cross product with parameter lists and the number of command strings    *)
(* without; every other count is a user error and no commands are          *)
(* returned.                                                               *)
(***************************************************************************)
C3_NameCountOneOrAll ==
    LET names == matches.command_name
        n == Len(names)
        B == IF ParameterListGiven THEN CrossProductSize ELSE Len(matches.command)
    IN  (n >= 1 /\ BuildCommandsOver /\ DistinctParameterNames) =>
            IF n = 1 \/ n = B
            THEN /\ ~NameCountErrorReported
                 /\ Len(commands) = B
                 /\ \A k \in 1..Len(commands) :
                       commands[k].name = Some(IF n = 1 THEN names[1] ELSE names[k])
            ELSE /\ NameCountErrorReported
                 /\ commands = << >>

(***************************************************************************)
(* C3, amended: with parameter lists and a non-empty cross product the     *)
(* claim holds as stated; with an empty cross product build_commands       *)
(* returns no commands and reports no error whatever the number of names;  *)
(* without parameters any number of names up to the number of command      *)
(* strings is accepted, the i-th name goes to the i-th command and the     *)
(* commands beyond the names have no name (a single name is not shared),   *)
(* and only more names than command strings are a user error.              *)
(***************************************************************************)
C3_NameCount ==
    LET names == matches.command_name
        n == Len(names)
    IN  (n >= 1 /\ BuildCommandsOver /\ DistinctParameterNames) =>
            IF ParameterListGiven /\ CrossProductSize = 0
            THEN /\ ~NameCountErrorReported
                 /\ commands = << >>
            ELSE IF ParameterListGiven /\ (n = 1 \/ n = CrossProductSize)
            THEN /\ ~NameCountErrorReported
                 /\ Len(commands) = CrossProductSize
                 /\ \A k \in 1..Len(commands) :
                       commands[k].name = Some(IF n = 1 THEN names[1] ELSE names[k])
            ELSE IF ~ParameterListGiven /\ n <= Len(matches.command)
            THEN /\ ~NameCountErrorReported
                 /\ Len(commands) = Len(matches.command)
                 /\ \A k \in 1..Len(commands) :
                       commands[k].name = IF k <= n THEN Some(names[k]) ELSE None
            ELSE /\ NameCountErrorReported
                 /\ commands = << >>
                 /\ exit_code = Some(1)

\* one name for two command strings without parameters: accepted, and the
\* second command has no name
C3_Witness ==
    /\ ~ParameterListGiven
    /\ Len(matches.command_name) = 1
    /\ BuildCommandsReturned
    /\ Len(commands) = 2
    /\ commands[1].name = Some(matches.command_name[1])
    /\ commands[2].name = None

(***************************************************************************)
(* C4: in run, the export manager is called exactly once after each        *)
(* completed benchmark and before the next benchmark starts, with exactly  *)
(* the results of the commands 1..k in command order: the k-th call gets   *)
(* the first k results, there are as many calls as completed benchmarks    *)
(* (one fewer between a benchmark and its export), benchmarks are started  *)
(* in command order, and none is started before the export of the one      *)
(* before it.                                                              *)
(***************************************************************************)
C4_ExportAfterEachBenchmark ==
    /\ \A k \in 1..Len(exported) :
          /\ exported[k] = SubSeq(timing_results, 1, k)
          /\ \A j \in 1..k : exported[k][j].command = commands[j]
    /\ Len(exported) = IF pc = "write_results" THEN Len(timing_results) - 1
                       ELSE Len(timing_results)
    /\ \A n \in 1..Len(benchmarks) : benchmarks[n] = n - 1
    /\ Len(timing_results) <= Len(benchmarks)
    /\ Len(benchmarks) <= Len(exported) + 1

\* the third benchmark is complete and two exports were made, of one and of
\* two results
C4_Witness ==
    /\ pc = "write_results"
    /\ Len(timing_results) = 3
    /\ Len(exported) = 2
    /\ Len(exported[1]) = 1
    /\ Len(exported[2]) = 2

(***************************************************************************)
(* C5: when the minimum and the maximum run count given on the command     *)
(* line (by --min-runs and --max-runs, or both at once by --runs) are both *)
(* present and the minimum is greater than the maximum,                    *)
(* build_hyperfine_options fails with EmptyRunsRange and main ends with an *)
(* error, exit code 1, without having measured the shell spawning time or  *)
(* run a benchmark.                                                        *)
(***************************************************************************)
Parses(arg) == arg = None \/ arg[1].digits
GivenMinRuns == IF matches.runs # None THEN matches.runs ELSE matches.min_runs
GivenMaxRuns == IF matches.runs # None THEN matches.runs ELSE matches.max_runs
MinAboveMax ==
    /\ Parses(matches.warmup) /\ Parses(matches.min_runs)
    /\ Parses(matches.max_runs) /\ Parses(matches.runs)
    /\ GivenMinRuns # None
    /\ GivenMaxRuns # None
    /\ GivenMinRuns[1].value > GivenMaxRuns[1].value

C5_EmptyRunsRange ==
    MinAboveMax =>
        /\ options # None =>
              ~options[1].ok /\ options[1].err = <<"EmptyRunsRange">>
        /\ calibrations = 0
        /\ benchmarks = << >>
        /\ pc \in {"build_hyperfine_options", "build_commands", "build_loop",
                   "build_export_manager", "dispatch", "exit"}
        /\ pc = "exit" => exit_code = Some(1)
        /\ (pc = "exit" /\ BuildCommandsReturned /\ ~ReportedIo("add_exporter"))
              => Reported("EmptyRunsRange")
        /\ pc # "exit" => ENABLED Next

\* --min-runs above --max-runs: main has reported EmptyRunsRange
C5_Witness ==
    /\ matches.min_runs # None
    /\ matches.max_runs # None
    /\ MinAboveMax
    /\ pc = "exit"
    /\ exit_code = Some(1)
    /\ Reported("EmptyRunsRange")

(***************************************************************************)
(* C6, as claimed: the options build_hyperfine_options returns have        *)
(* runs.min >= 1, whatever --min-runs, --max-runs and --runs are (each     *)
(* absent or any unsigned integer, 0 included).                            *)
(***************************************************************************)
C6_MinRunsAtLeastOne ==
    (options # None /\ options[1].ok) => options[1].val.runs.min >= 1

(***************************************************************************)
(* C10: if build_hyperfine_options succeeds and runs.max is set then       *)
(* runs.min <= runs.max; --runs n gives runs.min = runs.max = n whatever   *)
(* the other two options are; and --max-runs m alone, below the default    *)
(* minimum, lowers runs.min to m.                                          *)
(***************************************************************************)
C10_RunsRangeNotEmpty ==
    (options # None /\ options[1].ok) =>
        LET runs == options[1].val.runs
        IN  /\ runs.max # None => runs.min <= runs.max[1]
            /\ matches.runs # None =>
                  /\ runs.min = matches.runs[1].value
                  /\ runs.max = Some(matches.runs[1].value)
            /\ ( /\ matches.runs = None
                 /\ matches.min_runs = None
                 /\ matches.max_runs # None
                 /\ matches.max_runs[1].value < env.default_min_runs ) =>
                  /\ runs.min = matches.max_runs[1].value
                  /\ runs.max = Some(matches.max_runs[1].value)

\* --max-runs 1 alone with a default minimum of 2: the range is 1..1
C10_Witness ==
    /\ options # None
    /\ options[1].ok
    /\ matches.runs = None
    /\ matches.min_runs = None
    /\ matches.max_runs # None
    /\ matches.max_runs[1].value = 1
    /\ env.default_min_runs = 2
    /\ options[1].val.runs = [min |-> 1, max |-> Some(1)]

(***************************************************************************)
(* C7: the number of --prepare commands must be 1 or N, the number of      *)
(* commands.  With more than one and not N, run ends the process with the  *)
(* user error before any command is benchmarked and before any export;     *)
(* with 1 or N (or none) that error is never reported, and a run that ends *)
(* in success has benchmarked every command, in order.                     *)
(***************************************************************************)
RunCalled == calibrations > 0
PrepareCountWrong ==
    /\ matches.prepare # None
    /\ Len(matches.prepare[1]) > 1
    /\ Len(matches.prepare[1]) # Len(commands)

C7_PrepareCount ==
    RunCalled =>
        IF PrepareCountWrong
        THEN /\ benchmarks = << >>
             /\ timing_results = << >>
             /\ exported = << >>
             /\ pc \in {"check_prepare", "exit"}
             /\ pc = "exit" =>
                   /\ exit_code = Some(1)
                   /\ PrepareErrorReported \/ ReportedIo("mean_shell_spawning_time")
        ELSE /\ ~PrepareErrorReported
             /\ pc = "check_prepare" => ENABLED PrepareCountOk
             /\ (pc = "exit" /\ exit_code = Some(0)) =>
                   benchmarks = [n \in 1..Len(commands) |-> n - 1]

\* three --prepare commands for two commands: the error was reported
C7_Witness ==
    /\ PrepareCountWrong
    /\ Len(commands) = 2
    /\ pc = "exit"
    /\ PrepareErrorReported
    /\ benchmarks = << >>

(***************************************************************************)
(* C8: an export error ends the whole run: once the export after the k-th  *)
(* benchmark has failed, the error is reported, the process has ended with *)
(* code 1, no benchmark after the k-th was started and no comparison was   *)
(* printed.                                                                *)
(***************************************************************************)
C8_ExportErrorEndsRun ==
    ExportErrorReported =>
        /\ pc = "exit"
        /\ exit_code = Some(1)
        /\ Len(benchmarks) = Len(timing_results)
        /\ Len(exported) = Len(timing_results)
        /\ ~SummaryPrinted
        /\ ~ENABLED Next

\* the export after the first of two benchmarks failed
C8_Witness ==
    /\ ExportErrorReported
    /\ Len(commands) = 2
    /\ benchmarks = <<0>>
    /\ exit_code = Some(1)

(***************************************************************************)
(* C9: when run has collected at least two results, one of them with a     *)
(* mean <= 0 (the comparison is uncomputable), and returns, the Summary    *)
(* section was not printed, the exporters were still run after every       *)
(* benchmark, the last time with all the results, and the process ends in  *)
(* success; unless the output is disabled the note is printed instead.     *)
(***************************************************************************)
C9_UncomputableComparison ==
    ( /\ pc = "exit"
      /\ ~ExportErrorReported
      /\ Len(timing_results) = Len(commands)
      /\ Len(timing_results) >= 2
      /\ \E k \in 1..Len(timing_results) : timing_results[k].mean <= 0 ) =>
        /\ ~SummaryPrinted
        /\ Len(exported) = Len(commands)
        /\ exported[Len(exported)] = timing_results
        /\ exit_code = Some(0)
        /\ stderr = IF matches.style = Some("none") THEN << >>
                    ELSE <<<<"Note", <<"comparison could not be computed">>>>>>

\* two results, one with mean 0, an exporter registered: the note replaces
\* the summary
C9_Witness ==
    /\ pc = "exit"
    /\ exit_code = Some(0)
    /\ Len(timing_results) = 2
    /\ timing_results[1].mean = 1
    /\ timing_results[2].mean = 0
    /\ export_manager # << >>
    /\ Len(exported) = 2
    /\ NotePrinted
    /\ ~SummaryPrinted

=============================================================================
